---- MODULE Spec2Model ----
(***************************************************************************)
(* Model of ngesh/output.py: the two tree serialisers tree2wordlist and    *)
(* tree2nexus.  A Python string is a sequence of tokens (single characters *)
(* for everything derived from the data, whole literals for the fixed      *)
(* keywords); a dict is a sequence of <<key, value>> pairs in insertion    *)
(* order; an exception ends the call with the exception's name as outcome. *)
(***************************************************************************)
EXTENDS Integers, Sequences, FiniteSets, TLC

\* ---- bounds of the model ----
MaxLeaves == 2
MaxChars == 2

\* Python's None: the unset num_chars and the fill value of zip_longest
None == 0 - 1

\* leaf names: two suffice for equal and distinct names, one holds a space
Names == { <<"a">>, <<"p", " ", "q">> }
\* character states are opaque values: two suffice for equal and distinct states
States == {1, 2}

CharVectors == UNION { [1..n -> States] : n \in 0..MaxChars }

\* a leaf of the tree: name, and chars when the attribute exists
Leaves == [name : Names, has_chars : {TRUE}, chars : CharVectors]
            \cup [name : Names, has_chars : {FALSE}, chars : {<<>>}]

Trees == UNION { [1..n -> Leaves] : n \in 0..MaxLeaves }

ErrorOutcomes == {"AttributeError", "IndexError", "ValueError"}

VARIABLES tree, fn, pc, idx, outcome, result, buf,
          num_chars,
          data, missing_chars, concept_states, bin_strings, max_len, ntax, nchar

vars == <<tree, fn, pc, idx, outcome, result, buf, num_chars,
          data, missing_chars, concept_states, bin_strings, max_len, ntax, nchar>>

nxvars == <<data, missing_chars, concept_states, bin_strings, max_len, ntax, nchar>>

\* ---- string helpers ----
DigitChars == <<"0", "1", "2", "3", "4", "5", "6", "7", "8", "9">>

RECURSIVE Digits(_)
\* "%i" % n for n >= 0
Digits(n) == IF n < 10 THEN <<DigitChars[n + 1]>>
             ELSE Digits(n \div 10) \o <<DigitChars[(n % 10) + 1]>>

\* str(state)
Str(state) == IF state = None THEN <<"None">> ELSE Digits(state)

RECURSIVE Join(_, _)
\* sep.join(parts)
Join(parts, sep) ==
  IF Len(parts) = 0 THEN <<>>
  ELSE IF Len(parts) = 1 THEN parts[1]
  ELSE parts[1] \o sep \o Join(Tail(parts), sep)

\* ---- tree2wordlist ----
Header == <<"Language_ID", ",", "Feature_ID", ",", "Value">>

\* variant: the header is not put in the buffer
InitBuf_NoHeader == <<>>

InitBuf == <<Header>>

\* variant: num_chars is read only while it is None
NumCharsAfter_IsNone(n, leave) ==
  IF n = None THEN Len(leave.chars) ELSE n

\* variant: num_chars is read again at every leaf
NumCharsAfter_Always(n, leave) == Len(leave.chars)

\* lines 26-27: num_chars is (re)read while it is None or 0
NumCharsAfter(n, leave) ==
  IF n = None \/ n = 0 THEN Len(leave.chars) ELSE n

\* line 31: one row of the wordlist
Row(leave, i) ==
  Join(<<leave.name, <<"feature_">> \o Digits(i), Str(leave.chars[i + 1])>>, <<",">>)

\* variant: a leaf emits all of its characters
Rows_All(leave, n) == [k \in 1..Len(leave.chars) |-> Row(leave, k - 1)]

\* lines 30-33: the rows of a leaf, for idx in range(n)
Rows(leave, n) == [k \in 1..n |-> Row(leave, k - 1)]

\* the exception one loop iteration raises, "none" when it raises nothing
LeafError(n, leave) ==
  IF (n = None \/ n = 0) /\ ~leave.has_chars THEN "AttributeError"
  ELSE IF NumCharsAfter(n, leave) > 0 /\ ~leave.has_chars THEN "AttributeError"
  ELSE IF NumCharsAfter(n, leave) > Len(leave.chars) THEN "IndexError"
  ELSE "none"

\* ---- tree2nexus ----
\* variant: a list of pairs, a repeated key is added again
DictSet_Append(d, k, v) == Append(d, <<k, v>>)

\* d[k] = v on an insertion-ordered dict: an existing key keeps its place
DictSet(d, k, v) ==
  IF \E j \in DOMAIN d : d[j][1] = k
  THEN [j \in DOMAIN d |-> IF d[j][1] = k THEN <<k, v>> ELSE d[j]]
  ELSE Append(d, <<k, v>>)

RECURSIVE DictOfLeaves(_, _, _)
\* lines 64 and 67: {leaf.name: leaf.chars or [] for leaf in the first n leaves}
DictOfLeaves(leaves, n, withChars) ==
  IF n = 0 THEN <<>>
  ELSE DictSet(DictOfLeaves(leaves, n - 1, withChars), leaves[n].name,
               IF withChars THEN leaves[n].chars ELSE <<>>)

\* variant: characters count as missing only when no leaf has them
CharsMissing_All(leaves) == \A j \in DOMAIN leaves : ~leaves[j].has_chars

\* line 64 raises AttributeError as soon as one leaf has no chars
CharsMissing(leaves) == \E j \in DOMAIN leaves : ~leaves[j].has_chars

\* max(xs) of a non-empty sequence of naturals
MaxOf(xs) == CHOOSE m \in {xs[j] : j \in DOMAIN xs} : \A j \in DOMAIN xs : xs[j] <= m

\* number of tuples itertools.zip_longest(*d.values()) yields
ZipLongestLen(d) ==
  IF Len(d) = 0 THEN 0 ELSE MaxOf([j \in DOMAIN d |-> Len(d[j][2])])

\* line 71: set(concept) of the p-th tuple of zip_longest, None past a vector's end
ConceptSet(d, p) ==
  { IF p <= Len(d[j][2]) THEN d[j][2][p] ELSE None : j \in DOMAIN d }

\* the orders in which iterating a set may yield its elements
Enumerations(S) ==
  { e \in [1..Cardinality(S) -> S] : {e[k] : k \in DOMAIN e} = S }

\* line 71: the values concept_states may take, one enumeration per position
ConceptStates(d) ==
  LET L == ZipLongestLen(d)
      All == UNION { Enumerations(ConceptSet(d, p)) : p \in 1..L }
  IN { cs \in [1..L -> All] : \A p \in 1..L : cs[p] \in Enumerations(ConceptSet(d, p)) }

\* variant: the bit is inverted
BinBlock_Inverted(concept_state, states) ==
  [k \in DOMAIN states |-> IF concept_state = states[k] THEN "0" ELSE "1"]

\* lines 79 and 85: the bits of one character position
BinBlock(concept_state, states) ==
  [k \in DOMAIN states |-> IF concept_state = states[k] THEN "1" ELSE "0"]

RECURSIVE BinString(_, _, _)
\* lines 77-85: the blocks of the first n positions of char, concatenated
BinString(char, cs, n) ==
  IF n = 0 THEN <<>>
  ELSE BinString(char, cs, n - 1) \o BinBlock(char[n], cs[n])

\* line 103: len(list(bin_strings.values())[0])
FirstLen(bs) == Len(bs[1][2])

\* line 109: taxon.replace(" ", "_")
Replace(name) == [k \in DOMAIN name |-> IF name[k] = " " THEN "_" ELSE name[k]]

\* "%-Ns" % s: left-justified in a field of width
LeftAlign(s, width) ==
  s \o [k \in 1..(IF width > Len(s) THEN width - Len(s) ELSE 0) |-> " "]

\* lines 92 and 109: align_string % (name, bin_string)
MatrixRow(name, bin_string, maxlen) ==
  LeftAlign(Replace(name), maxlen + 3) \o <<" ">> \o bin_string

WarningLine == <<"[WARNING: characters missing from tree]", "\n">>

\* lines 101-104
DimensionsLine(nt, nc) ==
  <<"  dimensions ntax=">> \o Digits(nt) \o <<" nchar=">> \o Digits(nc) \o <<";">>

\* lines 95-106: the buffer up to the matrix keyword
NexusHead(missing, nt, nc) ==
  <<  <<"#NEXUS">>, <<>> >>
    \o (IF missing THEN <<WarningLine>> ELSE <<>>)
    \o << <<"begin data;">>, DimensionsLine(nt, nc),
          <<"  format datatype=standard missing=? gap=-;">>, <<"  matrix">> >>

\* lines 111-112
NexusTail == << <<"  ;">>, <<"end;">> >>

Init ==
  /\ tree \in Trees
  /\ fn = "none"
  /\ pc = "idle"
  /\ idx = 0
  /\ outcome = "none"
  /\ result = <<>>
  /\ buf = <<>>
  /\ num_chars = None
  /\ data = <<>>
  /\ missing_chars = FALSE
  /\ concept_states = <<>>
  /\ bin_strings = <<>>
  /\ max_len = 0
  /\ ntax = 0
  /\ nchar = 0

\* lines 18-21
WL_Call ==
  /\ pc = "idle"
  /\ fn' = "tree2wordlist"
  /\ pc' = "wl_loop"
  /\ idx' = 1
  /\ num_chars' = None
  /\ buf' = InitBuf
  /\ UNCHANGED <<tree, outcome, result, nxvars>>

\* lines 24-38: one iteration of the loop over the leaves
WL_Leaf ==
  /\ pc = "wl_loop"
  /\ idx <= Len(tree)
  /\ LET leave == tree[idx]
         err == LeafError(num_chars, leave)
     IN IF err # "none"
        THEN /\ outcome' = err
             /\ pc' = "done"
             /\ UNCHANGED <<idx, num_chars, buf>>
        ELSE /\ num_chars' = NumCharsAfter(num_chars, leave)
             /\ buf' = buf \o Rows(leave, NumCharsAfter(num_chars, leave))
             /\ idx' = idx + 1
             /\ UNCHANGED <<outcome, pc>>
  /\ UNCHANGED <<tree, fn, result, nxvars>>

\* line 41
WL_Return ==
  /\ pc = "wl_loop"
  /\ idx > Len(tree)
  /\ result' = Join(buf, <<"\n">>)
  /\ outcome' = "returned"
  /\ pc' = "done"
  /\ UNCHANGED <<tree, fn, idx, buf, num_chars, nxvars>>

\* lines 63-68
NX_Call ==
  /\ pc = "idle"
  /\ fn' = "tree2nexus"
  /\ missing_chars' = CharsMissing(tree)
  /\ data' = DictOfLeaves(tree, Len(tree), ~CharsMissing(tree))
  /\ pc' = "nx_concepts"
  /\ UNCHANGED <<tree, idx, outcome, result, buf, num_chars,
                 concept_states, bin_strings, max_len, ntax, nchar>>

\* line 71
NX_Concepts ==
  /\ pc = "nx_concepts"
  /\ concept_states' \in ConceptStates(data)
  /\ bin_strings' = <<>>
  /\ idx' = 1
  /\ pc' = "nx_bin"
  /\ UNCHANGED <<tree, fn, outcome, result, buf, num_chars,
                 data, missing_chars, max_len, ntax, nchar>>

\* lines 75-85: one iteration of the loop over data.items()
NX_BinString ==
  /\ pc = "nx_bin"
  /\ idx <= Len(data)
  /\ bin_strings' = DictSet(bin_strings, data[idx][1],
                            BinString(data[idx][2], concept_states, Len(data[idx][2])))
  /\ idx' = idx + 1
  /\ UNCHANGED <<tree, fn, pc, outcome, result, buf, num_chars,
                 data, missing_chars, concept_states, max_len, ntax, nchar>>

\* lines 91-92: max() of an empty list raises ValueError
NX_MaxLen ==
  /\ pc = "nx_bin"
  /\ idx > Len(data)
  /\ IF Len(data) = 0
     THEN /\ outcome' = "ValueError"
          /\ pc' = "done"
          /\ UNCHANGED max_len
     ELSE /\ max_len' = MaxOf([j \in DOMAIN data |-> Len(data[j][1])])
          /\ pc' = "nx_head"
          /\ UNCHANGED outcome
  /\ UNCHANGED <<tree, fn, idx, result, buf, num_chars,
                 data, missing_chars, concept_states, bin_strings, ntax, nchar>>

\* lines 95-106
NX_Head ==
  /\ pc = "nx_head"
  /\ ntax' = Len(bin_strings)
  /\ nchar' = FirstLen(bin_strings)
  /\ buf' = NexusHead(missing_chars, Len(bin_strings), FirstLen(bin_strings))
  /\ idx' = 1
  /\ pc' = "nx_rows"
  /\ UNCHANGED <<tree, fn, outcome, result, num_chars,
                 data, missing_chars, concept_states, bin_strings, max_len>>

\* lines 108-109: one iteration of the loop over bin_strings.items()
NX_Row ==
  /\ pc = "nx_rows"
  /\ idx <= Len(bin_strings)
  /\ buf' = Append(buf, MatrixRow(bin_strings[idx][1], bin_strings[idx][2], max_len))
  /\ idx' = idx + 1
  /\ UNCHANGED <<tree, fn, pc, outcome, result, num_chars, nxvars>>

\* lines 111-115
NX_Return ==
  /\ pc = "nx_rows"
  /\ idx > Len(bin_strings)
  /\ buf' = buf \o NexusTail
  /\ result' = Join(buf \o NexusTail, <<"\n">>)
  /\ outcome' = "returned"
  /\ pc' = "done"
  /\ UNCHANGED <<tree, fn, idx, num_chars, nxvars>>

Next ==
  \/ WL_Call \/ WL_Leaf \/ WL_Return
  \/ NX_Call \/ NX_Concepts \/ NX_BinString \/ NX_MaxLen \/ NX_Head \/ NX_Row \/ NX_Return

Spec == Init /\ [][Next]_vars

\* ---- reading the returned string ----
RECURSIVE Split(_)
\* the lines of a string: s.split("\n")
Split(s) ==
  IF \A k \in DOMAIN s : s[k] # "\n" THEN <<s>>
  ELSE LET k == CHOOSE i \in DOMAIN s : s[i] = "\n" /\ \A j \in 1..(i - 1) : s[j] # "\n"
       IN <<SubSeq(s, 1, k - 1)>> \o Split(SubSeq(s, k + 1, Len(s)))

DigitVal(c) == CHOOSE d \in 0..9 : DigitChars[d + 1] = c

RECURSIVE ParseInt(_)
ParseInt(ds) ==
  IF Len(ds) = 0 THEN 0
  ELSE 10 * ParseInt(SubSeq(ds, 1, Len(ds) - 1)) + DigitVal(ds[Len(ds)])

IndexOf(line, tok) == CHOOSE k \in DOMAIN line : line[k] = tok

Returned(f) == pc = "done" /\ fn = f /\ outcome = "returned"
Finished(f) == pc = "done" /\ fn = f

OutLines == Split(result)

\* number of output lines after the first
DataRows == Len(OutLines) - 1

\* the dimensions line among the lines of a returned NEXUS string
DimLineOf(lines) ==
  lines[CHOOSE i \in DOMAIN lines :
          Len(lines[i]) > 0 /\ lines[i][1] = "  dimensions ntax="]

NtaxOf(dim) == ParseInt(SubSeq(dim, 2, IndexOf(dim, " nchar=") - 1))
NcharOf(dim) == ParseInt(SubSeq(dim, IndexOf(dim, " nchar=") + 1, Len(dim) - 1))

\* the ntax and nchar values written in the returned string
NtaxWritten == NtaxOf(DimLineOf(OutLines))
NcharWritten == NcharOf(DimLineOf(OutLines))

\* number of lines between the matrix keyword and the closing semicolon
MatrixRowsOf(lines) ==
  LET m == CHOOSE i \in DOMAIN lines : lines[i] = <<"  matrix">>
      e == CHOOSE i \in DOMAIN lines : lines[i] = <<"  ;">>
  IN e - m - 1

MatrixRowCount == MatrixRowsOf(OutLines)

WarningIn(lines) ==
  \E i \in DOMAIN lines : lines[i] = <<"[WARNING: characters missing from tree]">>

HasWarning == WarningIn(OutLines)

Characterized(j) == tree[j].has_chars /\ Len(tree[j].chars) > 0
AnyCharacterized == \E j \in DOMAIN tree : Characterized(j)
FirstCharacterized ==
  CHOOSE j \in DOMAIN tree : Characterized(j) /\ \A i \in 1..(j - 1) : ~Characterized(i)

\* num_chars as the text defines it: the length of the first non-empty chars
SpecNumChars == IF AnyCharacterized THEN Len(tree[FirstCharacterized].chars) ELSE 0

DistinctNames == {tree[j].name : j \in DOMAIN tree}

RECURSIVE AlphabetSum(_, _)
\* sum of the alphabet sizes of positions 1..n of the aligned vectors
AlphabetSum(d, n) ==
  IF n = 0 THEN 0 ELSE AlphabetSum(d, n - 1) + Cardinality(ConceptSet(d, n))

\* ---- C1 ----
\* C1 (as stated): on a tree with zero leaves both tree2wordlist and
\* tree2nexus end in an error outcome and return no string.
C1_Original ==
  (pc = "done" /\ Len(tree) = 0) => (outcome \in ErrorOutcomes /\ result = <<>>)

\* C1 (amended): on a tree with zero leaves tree2nexus ends in an error
\* outcome (ValueError) and returns no string, while tree2wordlist returns
\* the header line alone.
C1_EmptyTree ==
  (pc = "done" /\ Len(tree) = 0) =>
     /\ fn = "tree2nexus" => (outcome = "ValueError" /\ result = <<>>)
     /\ fn = "tree2wordlist" => (outcome = "returned" /\ result = Header)

C1_Witness ==
  pc = "done" /\ Len(tree) = 0 /\ fn = "tree2wordlist" /\ outcome = "returned"

\* ---- C2 ----
\* C2 (as stated): whenever tree2wordlist returns, the number of data rows
\* is (number of leaves) x num_chars, num_chars being the length of the
\* first non-empty chars.
C2_Original ==
  Returned("tree2wordlist") => DataRows = Len(tree) * SpecNumChars

\* C2 (amended): whenever tree2wordlist returns, the number of data rows is
\* num_chars times the number of leaves from the first characterized leaf
\* on; leaves with empty chars before it contribute no row.
C2_RowCount ==
  Returned("tree2wordlist") =>
     DataRows = IF AnyCharacterized
                THEN (Len(tree) - FirstCharacterized + 1) * SpecNumChars
                ELSE 0

C2_Witness ==
  /\ Returned("tree2wordlist")
  /\ AnyCharacterized
  /\ FirstCharacterized = 2
  /\ DataRows = (Len(tree) - 1) * SpecNumChars

\* ---- C3 ----
\* C3 (as stated): the ntax written by tree2nexus and the number of matrix
\* rows equal the number of leaves, also when leaves share a name.
C3_Original ==
  Returned("tree2nexus") => (NtaxWritten = Len(tree) /\ MatrixRowCount = Len(tree))

\* C3 (amended): the ntax written by tree2nexus and the number of matrix
\* rows equal the number of distinct leaf names; this is the number of
\* leaves when no two leaves share a name.
C3_Ntax ==
  Returned("tree2nexus") =>
     LET lines == Split(result)
     IN /\ NtaxOf(DimLineOf(lines)) = Cardinality(DistinctNames)
        /\ MatrixRowsOf(lines) = Cardinality(DistinctNames)

C3_Witness ==
  /\ Returned("tree2nexus")
  /\ Cardinality(DistinctNames) < Len(tree)
  /\ NtaxWritten = Cardinality(DistinctNames)
  /\ MatrixRowCount = Cardinality(DistinctNames)

\* ---- C4 ----
\* C4: the nchar written by tree2nexus is the sum, over all positions of the
\* aligned vectors, of the number of distinct states at that position, for
\* every combination of vector lengths.
C4_Nchar ==
  Returned("tree2nexus") => NcharWritten = AlphabetSum(data, ZipLongestLen(data))

\* ---- C5 ----
\* C5: the matrix of tree2nexus is rectangular: every taxon's binary string
\* has the declared nchar as its length.
C5_Rectangular ==
  Returned("tree2nexus") =>
     \A j \in DOMAIN bin_strings : Len(bin_strings[j][2]) = NcharWritten

\* ---- C6 ----
\* C6: for a tree with at least one leaf in which chars is absent on every
\* leaf, or empty on every leaf, tree2wordlist returns exactly the header.
C6_HeaderOnly ==
  ( /\ Finished("tree2wordlist")
    /\ Len(tree) >= 1
    /\ \/ \A j \in DOMAIN tree : ~tree[j].has_chars
       \/ \A j \in DOMAIN tree : tree[j].has_chars /\ Len(tree[j].chars) = 0 )
  => (outcome = "returned" /\ result = Header)

\* ---- C7 ----
\* C7 (as stated): tree2nexus emits the warning line exactly when no leaf
\* of the tree has the chars attribute.
C7_Original ==
  Returned("tree2nexus") => (HasWarning <=> \A j \in DOMAIN tree : ~tree[j].has_chars)

\* C7 (amended): tree2nexus emits the warning line, and gives every taxon
\* an empty vector (nchar=0), exactly when at least one leaf lacks the
\* chars attribute; when every leaf has chars there is no warning and each
\* taxon keeps the chars of the last leaf of that name.
C7_Warning ==
  Returned("tree2nexus") =>
     LET lines == Split(result)
         warned == WarningIn(lines)
     IN /\ warned <=> \E j \in DOMAIN tree : ~tree[j].has_chars
        /\ warned => /\ NcharOf(DimLineOf(lines)) = 0
                     /\ \A j \in DOMAIN data : data[j][2] = <<>>
                     /\ \A j \in DOMAIN bin_strings : bin_strings[j][2] = <<>>
        /\ ~warned =>
             \A j \in DOMAIN data :
                \E k \in DOMAIN tree :
                   /\ tree[k].name = data[j][1]
                   /\ tree[k].chars = data[j][2]
                   /\ \A m \in (k + 1)..Len(tree) : tree[m].name # data[j][1]

C7_Witness ==
  /\ Returned("tree2nexus")
  /\ HasWarning
  /\ \E j \in DOMAIN tree : Characterized(j)
  /\ \E j \in DOMAIN tree : ~tree[j].has_chars

\* ---- C8 ----
\* the value of num_chars in effect while leaf k is visited
NumCharsAt(k) ==
  IF \E j \in 1..k : Characterized(j)
  THEN Len(tree[CHOOSE j \in 1..k : Characterized(j) /\ \A i \in 1..(j - 1) : ~Characterized(i)].chars)
  ELSE 0

ExpectedRow(k, i) ==
  tree[k].name \o <<",", "feature_">> \o Digits(i) \o <<",">> \o Digits(tree[k].chars[i + 1])

RECURSIVE ExpectedLines(_)
\* header, then the rows of leaves 1..k in traversal order
ExpectedLines(k) ==
  IF k = 0 THEN << <<"Language_ID", ",", "Feature_ID", ",", "Value">> >>
  ELSE ExpectedLines(k - 1) \o [i \in 1..NumCharsAt(k) |-> ExpectedRow(k, i - 1)]

RECURSIVE Offset(_, _)
\* number of bits emitted before position p
Offset(cs, p) == IF p = 1 THEN 0 ELSE Offset(cs, p - 1) + Len(cs[p - 1])

\* the bits taxon j's string holds for position p
BlockOf(j, p) ==
  SubSeq(bin_strings[j][2], Offset(concept_states, p) + 1,
         Offset(concept_states, p) + Len(concept_states[p]))

\* C9: in tree2nexus, for every taxon and every position p of its vector,
\* the block of bits for p has one bit per distinct state of p's alphabet
\* and exactly one "1", at the bit of the taxon's own state; blocks follow
\* one another in position order, so two taxa have equal blocks at p
\* exactly when they have equal states at p.
C9_OneHot ==
  Returned("tree2nexus") =>
     /\ \A j \in DOMAIN data :
          /\ bin_strings[j][1] = data[j][1]
          /\ Len(bin_strings[j][2]) = Offset(concept_states, Len(data[j][2]) + 1)
          /\ \A p \in DOMAIN data[j][2] :
               LET block == BlockOf(j, p)
               IN /\ Len(block) = Cardinality(ConceptSet(data, p))
                  /\ Cardinality({k \in DOMAIN block : block[k] = "1"}) = 1
                  /\ \A k \in DOMAIN block :
                       block[k] \in {"0", "1"}
                       /\ (block[k] = "1" <=> concept_states[p][k] = data[j][2][p])
     /\ \A j1, j2 \in DOMAIN data :
          \A p \in DOMAIN data[j1][2] \cap DOMAIN data[j2][2] :
             (BlockOf(j1, p) = BlockOf(j2, p)) <=> (data[j1][2][p] = data[j2][2][p])

C9_Witness ==
  /\ Returned("tree2nexus")
  /\ \E j1, j2 \in DOMAIN data :
       \E p \in DOMAIN data[j1][2] \cap DOMAIN data[j2][2] :
          data[j1][2][p] # data[j2][2][p] /\ BlockOf(j1, p) # BlockOf(j2, p)

\* ---- C10 ----
\* a leaf after the first characterized one has fewer than num_chars characters
ShortLaterLeaf ==
  /\ AnyCharacterized
  /\ \E k \in (FirstCharacterized + 1)..Len(tree) : Len(tree[k].chars) < SpecNumChars

\* C10: in tree2wordlist, when a leaf visited after num_chars was fixed has
\* fewer than num_chars characters, the call ends in an error outcome and
\* returns no string.
C10_ShortLeafError ==
  (Finished("tree2wordlist") /\ ShortLaterLeaf) =>
     (outcome \in ErrorOutcomes /\ result = <<>>)

C10_Witness ==
  /\ Finished("tree2wordlist")
  /\ ShortLaterLeaf
  /\ \A j \in DOMAIN tree : tree[j].has_chars
  /\ outcome = "IndexError"
====
